---- MODULE Spec2Model ----
(***************************************************************************)
(* Model of the online anomaly-detection lab (lab01.2) of LearnAI-ADPM:   *)
(* running_avg, detect_ts_online and sample_run.                           *)
(*                                                                         *)
(* Real numbers are exact rationals <<n, d>> with d > 0 in lowest terms,   *)
(* so equality of two estimates is equality of the tuples.                 *)
(***************************************************************************)
EXTENDS Integers, Sequences, FiniteSets, TLC

(***************************************************************************)
(* Bounds of the model.                                                    *)
(***************************************************************************)
MaxLen == 4
MaxVal == 2
MaxCom == 3
MaxRows == 3
MaxTime == 3
MaxWindow == 3
MaxEpochs == 2
MaxSize == 5
MaxAnoms == 2
MaxCalls == 4
MaxBatch == 2
MaxFeature == 2

VARIABLES
    pc,             \* position of the running call
    ts, com,        \* running_avg: input series and center of mass
    rm_o, r,        \* running_avg: output array and loop index
    df_smooth,      \* detect_ts_online: the smoothed series (timestamp, value)
    window_size,    \* detect_ts_online / sample_run: window size
    stop,           \* detect_ts_online: stop index
    df_win,         \* detect_ts_online: the slice handed to the detector
    calls,          \* detect_ts_online: the detector calls made by the current call
    results,        \* detect_ts_online: what the detector answered
    is_anomaly,     \* detect_ts_online: returned flag
    run_time,       \* detect_ts_online: returned elapsed time
    df, anoms_ref,  \* sample_run: telemetry table and reference anomalies
    n_epochs, i,    \* sample_run: number of trials and loop index
    y_true, y_pred, \* sample_run: batch and online results per trial
    run_times,      \* sample_run: run time per trial
    timestamps,     \* sample_run: df['datetime'].unique()[window_size:]
    random_machines, random_sensors, random_timestamps,
    anoms_s,        \* sample_run: reference anomalies of the trial's pair
    anoms_timestamps, counter,  \* sample_run: the reshuffle loop
    ret,            \* sample_run: what the call returned or raised
    registered,     \* score.py: the object stored in the registered model file
    model,          \* score.py: the global model
    rawdata,        \* score.py: the body of the latest request
    response        \* score.py: what the latest call of run returned or raised

avgVars == <<ts, com, rm_o, r>>
onlineVars == <<df_smooth, window_size, stop, df_win, calls, results, is_anomaly, run_time>>
sampleVars ==
    <<df, anoms_ref, n_epochs, i, y_true, y_pred, run_times, timestamps,
      random_machines, random_sensors, random_timestamps,
      anoms_s, anoms_timestamps, counter, ret>>
scoreVars == <<registered, model, rawdata, response>>
vars == <<pc, avgVars, onlineVars, sampleVars, scoreVars>>

(***************************************************************************)
(* Exact rational arithmetic.                                              *)
(***************************************************************************)
Abs(n) == IF n < 0 THEN -n ELSE n

RECURSIVE GCD(_, _)
GCD(a, b) == IF b = 0 THEN a ELSE GCD(b, a % b)

Norm(n, d) ==
    LET s == IF d < 0 THEN -1 ELSE 1
        g == GCD(Abs(n), Abs(d))
    IN  <<(s * n) \div g, (s * d) \div g>>

Rat(n) == <<n, 1>>
RAdd(x, y) == Norm(x[1] * y[2] + y[1] * x[2], x[2] * y[2])
RSub(x, y) == Norm(x[1] * y[2] - y[1] * x[2], x[2] * y[2])
RMul(x, y) == Norm(x[1] * y[1], x[2] * y[2])
RDiv(x, y) == Norm(x[1] * y[2], x[2] * y[1])
RLe(x, y) == x[1] * y[2] <= y[1] * x[2]
RLt(x, y) == x[1] * y[2] < y[1] * x[2]
RMin(x, y) == IF RLe(x, y) THEN x ELSE y
RMax(x, y) == IF RLe(x, y) THEN y ELSE x

Min(a, b) == IF a <= b THEN a ELSE b
Max(a, b) == IF a >= b THEN a ELSE b

(***************************************************************************)
(* running_avg (the copy nested in sample_run, which carries the update    *)
(* law; the top-level copy leaves the law blank).                          *)
(* Sequences are 1-based: Python's ts[r] is ts[r + 1] here.                *)
(***************************************************************************)
\* curr_com = float(min(com, r))
CurrComZeroBased(c, k) == RMin(c, Rat(k - 1))
CurrCom(c, k) == RMin(c, Rat(k))

\* the divisor (curr_com + 1)
WeightUncapped(c, k) == RAdd(Rat(k), Rat(1))
Weight(c, k) == RAdd(CurrCom(c, k), Rat(1))

\* rm_o[r-1] + (ts[r] - rm_o[r-1])/(curr_com + 1)
UpdateFromNew(prev, new, c, k) == RAdd(new, RDiv(RSub(new, prev), Weight(c, k)))
UpdateNoDifference(prev, new, c, k) == RAdd(prev, RDiv(new, Weight(c, k)))
Update(prev, new, c, k) == RAdd(prev, RDiv(RSub(new, prev), Weight(c, k)))

\* rm_o = np.zeros_like(ts); rm_o[0] = ts[0]
SeedLast(xs) == [k \in 1..Len(xs) |-> IF k = 1 THEN xs[Len(xs)] ELSE Rat(0)]
SeedZero(xs) == [k \in 1..Len(xs) |-> Rat(0)]
Seed(xs) == [k \in 1..Len(xs) |-> IF k = 1 THEN xs[1] ELSE Rat(0)]

\* the state of rm_o after the loop body has run for r = 1..upto
RECURSIVE RunningAvgLoop(_, _, _)
RunningAvgLoop(xs, c, upto) ==
    IF upto = 0 THEN Seed(xs)
    ELSE LET rm == RunningAvgLoop(xs, c, upto - 1)
         IN  [rm EXCEPT ![upto + 1] = Update(rm[upto], xs[upto + 1], c, upto)]

running_avg(xs, c) == RunningAvgLoop(xs, c, Len(xs) - 1)

(***************************************************************************)
(* The batch smoother, ts.ewm(com=com).mean(): pandas' default adjusted    *)
(* form, y_t = sum_i (1-a)^(t-i) x_i / sum_i (1-a)^(t-i), a = 1/(1+com).   *)
(***************************************************************************)
Decay(c) == RDiv(c, RAdd(c, Rat(1)))

RECURSIVE EwmNum(_, _, _)
EwmNum(xs, c, t) ==
    IF t = 0 THEN Rat(0)
    ELSE RAdd(RMul(Decay(c), EwmNum(xs, c, t - 1)), xs[t])

RECURSIVE EwmDen(_, _)
EwmDen(c, t) ==
    IF t = 0 THEN Rat(0)
    ELSE RAdd(RMul(Decay(c), EwmDen(c, t - 1)), Rat(1))

ewm_mean(xs, c) == [t \in 1..Len(xs) |-> RDiv(EwmNum(xs, c, t), EwmDen(c, t))]

(***************************************************************************)
(* Inputs.                                                                 *)
(***************************************************************************)
Values == {Rat(v) : v \in (-1)..MaxVal}
Coms == {<<1, 2>>} \cup {Rat(c) : c \in 1..MaxCom}

SeqsUpTo(S, lo, hi) == UNION {[1..n -> S] : n \in lo..hi}

\* a series is ordered by timestamp; equal neighbours are duplicates
NonDecreasing(s) == \A k \in 1..(Len(s) - 1) : s[k] <= s[k + 1]
TimeSeqs(lo, hi) == {s \in SeqsUpTo(1..MaxTime, lo, hi) : NonDecreasing(s)}

\* what a call of sample_run ended with: a returned pair or a raised error
NoReturn == [kind |-> "none", error |-> "", at |-> "", score |-> Rat(0), latency |-> Rat(0)]
Raised(error, at) ==
    [kind |-> "raised", error |-> error, at |-> at, score |-> Rat(0), latency |-> Rat(0)]
Returned(score, latency) ==
    [kind |-> "returned", error |-> "", at |-> "", score |-> score, latency |-> latency]

NoAvg == ts = <<>> /\ com = Rat(1) /\ rm_o = <<>> /\ r = 0
NoOnline ==
    /\ df_smooth = <<>> /\ window_size = 1 /\ stop = 0 /\ df_win = <<>>
    /\ calls = <<>> /\ results = [raised |-> FALSE, anoms |-> <<>>]
    /\ is_anomaly = FALSE /\ run_time = 9999
NoTrial ==
    /\ i = 0 /\ y_true = <<>> /\ y_pred = <<>> /\ run_times = <<>>
    /\ timestamps = <<>> /\ random_machines = <<>> /\ random_sensors = <<>>
    /\ random_timestamps = <<>> /\ anoms_s = <<>> /\ anoms_timestamps = <<>>
    /\ counter = 0 /\ ret = NoReturn
NoSample == df = <<>> /\ anoms_ref = <<>> /\ n_epochs = 0 /\ NoTrial

\* the global model before init() has assigned it, and no request yet
Unset == [kind |-> "unset", threshold |-> 0]
NoBody == [shape |-> "none", data |-> <<>>]
NoResponse == [kind |-> "none", key |-> "", result |-> <<>>, error |-> ""]
NoScore ==
    /\ registered = Unset /\ model = Unset /\ rawdata = NoBody /\ response = NoResponse

(***************************************************************************)
(* rm_o = running_avg(values): the call, one loop iteration per step.      *)
(***************************************************************************)
InitAvg ==
    /\ pc = "avg_call"
    /\ ts \in SeqsUpTo(Values, 1, MaxLen)
    /\ com \in Coms
    /\ rm_o = <<>> /\ r = 0
    /\ NoOnline /\ NoSample
    /\ NoScore

AvgSeed ==
    /\ pc = "avg_call"
    /\ UNCHANGED scoreVars
    /\ rm_o' = Seed(ts)
    /\ r' = 1
    /\ pc' = "avg_loop"
    /\ UNCHANGED <<ts, com, onlineVars, sampleVars>>

AvgStep ==
    /\ pc = "avg_loop" /\ r < Len(ts)
    /\ UNCHANGED scoreVars
    /\ rm_o' = [rm_o EXCEPT ![r + 1] = Update(rm_o[r], ts[r + 1], com, r)]
    /\ r' = r + 1
    /\ UNCHANGED <<pc, ts, com, onlineVars, sampleVars>>

AvgReturn ==
    /\ pc = "avg_loop" /\ r >= Len(ts)
    /\ UNCHANGED scoreVars
    /\ pc' = "avg_done"
    /\ UNCHANGED <<avgVars, onlineVars, sampleVars>>

NextAvg == AvgSeed \/ AvgStep \/ AvgReturn

SpecAvg == InitAvg /\ [][NextAvg]_vars

(***************************************************************************)
(* pandas / numpy helpers.                                                 *)
(***************************************************************************)
\* seq.iloc[start:stop]: Python slice semantics (a negative bound counts
\* from the end, both bounds are clipped to the length)
SliceBound(n, b) == IF b < 0 THEN Max(n + b, 0) ELSE Min(b, n)
PySlice(s, start, end) ==
    LET lo == SliceBound(Len(s), start)
        hi == SliceBound(Len(s), end)
    IN  [k \in 1..Max(hi - lo, 0) |-> s[lo + k]]

\* the rows of s at the positions in P, in the order of s
RECURSIVE Select(_, _)
Select(s, P) ==
    IF s = <<>> THEN <<>>
    ELSE LET rest == Select(SubSeq(s, 1, Len(s) - 1), P)
         IN  IF Len(s) \in P THEN Append(rest, s[Len(s)]) ELSE rest

\* frame.tail(1) / frame.head(1) of a non-empty frame
TailRow(s) == s[Len(s)]
HeadRow(s) == s[1]

(***************************************************************************)
(* pyculiarity's detect_ts, an external library: on a window it either     *)
(* raises or answers results['anoms'], the flagged rows of the window in   *)
(* the order of the window.                                                *)
(***************************************************************************)
DetectParams ==
    [alpha |-> "0.05", max_anoms |-> "0.02", only_last |-> "None",
     longterm |-> FALSE, e_value |-> FALSE, direction |-> "both"]

detect_ts(win) ==
    {[raised |-> TRUE, anoms |-> <<>>]}
    \cup {[raised |-> FALSE, anoms |-> Select(win, P)] : P \in SUBSET (1..Len(win))}

\* results = detect_ts(df_win, alpha=0.05, ...): the call is made whatever
\* the length of the window; log is the list of the calls made so far
InvokeNonEmpty(log, win) ==
    IF win = <<>> THEN log ELSE Append(log, [data |-> win, params |-> DetectParams])
Invoke(log, win) == Append(log, [data |-> win, params |-> DetectParams])

\* elapsed wall-clock seconds of one detector call
Elapsed == {1, 2}

(***************************************************************************)
(* detect_ts_online(df_smooth, window_size, stop), the top-level function. *)
(***************************************************************************)
StartIndexUnclamped(size, stp) == stp - size
StartIndex(size, stp) == Max(0, stp - size)

\* df_win = df_smooth.iloc[start_index:stop, :]
WindowFromZero(frame, size, stp) == PySlice(frame, 0, stp)
Window(frame, size, stp) == PySlice(frame, StartIndex(size, stp), stp)

\* if results['anoms'].shape[0] > 0:
\*     timestamp = df_win['timestamp'].tail(1).values[0]
\*     if timestamp == results['anoms'].tail(1)['timestamp'].values[0]: True
DecideFirstReported(win, anoms) ==
    IF Len(anoms) > 0 THEN TailRow(win).timestamp = HeadRow(anoms).timestamp ELSE FALSE
Decide(win, anoms) ==
    IF Len(anoms) > 0 THEN TailRow(win).timestamp = TailRow(anoms).timestamp ELSE FALSE

Frames ==
    {[k \in 1..Len(t) |-> [timestamp |-> t[k], value |-> Rat(k % 2)]] : t \in TimeSeqs(0, MaxRows)}

InitOnline ==
    /\ pc = "online_call"
    /\ df_smooth \in Frames
    /\ window_size \in 1..MaxWindow
    /\ stop \in 0..Len(df_smooth)
    /\ df_win = <<>> /\ calls = <<>>
    /\ results = [raised |-> FALSE, anoms |-> <<>>]
    /\ is_anomaly = FALSE /\ run_time = 9999
    /\ NoAvg /\ NoSample
    /\ NoScore

DetectTsOnline ==
    /\ pc = "online_call"
    /\ UNCHANGED scoreVars
    /\ LET win == Window(df_smooth, window_size, stop)
       IN  /\ df_win' = win
           /\ calls' = Invoke(<<>>, win)
           /\ \E res \in detect_ts(win), t \in Elapsed :
                 /\ results' = res
                 /\ IF res.raised
                    THEN pc' = "online_raised" /\ UNCHANGED <<is_anomaly, run_time>>
                    ELSE /\ pc' = "online_returned"
                         /\ run_time' = t
                         /\ is_anomaly' = Decide(win, res.anoms)
    /\ UNCHANGED <<avgVars, df_smooth, window_size, stop, sampleVars>>

NextOnline == DetectTsOnline

SpecOnline == InitOnline /\ [][NextOnline]_vars

(***************************************************************************)
(* A stream of calls of detect_ts_online on one smoothed series: the first *)
(* call at stop = 0, every later call at the same stop again or at the     *)
(* next stop.  calls is the log of the detector's calls.                   *)
(***************************************************************************)
\* df_smooth after a call: iloc reads the frame, nothing is assigned to it
SeriesTrimmed(frame, size, stp) == PySlice(frame, StartIndex(size, stp), Len(frame))
SeriesAfterCall(frame, size, stp) == frame

InitStream ==
    /\ pc = "stream_start"
    /\ df_smooth \in Frames
    /\ window_size \in 1..MaxWindow
    /\ stop = 0
    /\ df_win = <<>> /\ calls = <<>>
    /\ results = [raised |-> FALSE, anoms |-> <<>>]
    /\ is_anomaly = FALSE /\ run_time = 9999
    /\ NoAvg /\ NoSample
    /\ NoScore

\* one call detect_ts_online(df_smooth, window_size, stp)
StreamCall(stp) ==
    /\ Len(calls) < MaxCalls
    /\ UNCHANGED scoreVars
    /\ stop' = stp
    /\ LET win == Window(df_smooth, window_size, stp)
       IN  /\ df_win' = win
           /\ calls' = Invoke(calls, win)
           /\ \E res \in detect_ts(win), t \in Elapsed :
                 /\ results' = res
                 /\ IF res.raised
                    THEN pc' = "stream_raised" /\ UNCHANGED <<is_anomaly, run_time>>
                    ELSE /\ pc' = "stream_returned"
                         /\ run_time' = t
                         /\ is_anomaly' = Decide(win, res.anoms)
    /\ df_smooth' = SeriesAfterCall(df_smooth, window_size, stp)
    /\ UNCHANGED <<avgVars, window_size, sampleVars>>

StreamFirst == pc = "stream_start" /\ StreamCall(stop)
StreamRepeat == pc = "stream_returned" /\ StreamCall(stop)
StreamAdvance == pc = "stream_returned" /\ stop < Len(df_smooth) /\ StreamCall(stop + 1)

NextStream == StreamFirst \/ StreamRepeat \/ StreamAdvance

SpecStream == InitStream /\ [][NextStream]_vars

(***************************************************************************)
(* sample_run(df, anoms_ref, window_size, com, n_epochs).                  *)
(***************************************************************************)
\* keyword default com = 12 and the retry cap of the reshuffle loop
DefaultCom == 12
RetryCap == 100

\* df.columns[2:]
Sensors == <<"volt", "rotate">>

Range(s) == {s[k] : k \in 1..Len(s)}
Column(frame, name) == [k \in 1..Len(frame) |-> frame[k][name]]

\* series.unique(): the distinct values in order of first appearance
RECURSIVE Unique(_)
Unique(s) ==
    IF s = <<>> THEN <<>>
    ELSE LET front == Unique(SubSeq(s, 1, Len(s) - 1))
         IN  IF s[Len(s)] \in Range(front) THEN front ELSE Append(front, s[Len(s)])

\* the outcomes of np.random.shuffle(a)
Shuffles(a) ==
    {[k \in 1..Len(a) |-> a[f[k]]] :
        f \in {g \in [1..Len(a) -> 1..Len(a)] : \A x, y \in 1..Len(a) : g[x] = g[y] => x = y}}

\* the copy of detect_ts_online nested in sample_run
NestedDetectParams ==
    [alpha |-> "0.05", max_anoms |-> "0.02", only_last |-> "None",
     longterm |-> FALSE, e_value |-> FALSE, direction |-> "both"]
NestedStartIndexLate(size, stp) == Max(0, stp - size + 1)
NestedStartIndex(size, stp) == Max(0, stp - size)
NestedWindow(frame, size, stp) == PySlice(frame, NestedStartIndex(size, stp), stp)
NestedDecide(win, anoms) ==
    IF Len(anoms) > 0 THEN TailRow(win).timestamp = TailRow(anoms).timestamp ELSE FALSE

\* anoms_ref[(anoms_ref['machineID'] == m) & (anoms_ref['errorID'] == sensor)]
PairAnomsAnySensor(ref, m, sensor) ==
    Select(ref, {k \in 1..Len(ref) : ref[k].machineID = m})
PairAnoms(ref, m, sensor) ==
    Select(ref, {k \in 1..Len(ref) : ref[k].machineID = m /\ ref[k].errorID = sensor})

\* y_true[i] = y_true_i (and the same for y_pred): i is Python's 0-based index
StoreNothing(arr, idx, val) == arr
Store(arr, idx, val) == [arr EXCEPT ![idx + 1] = val]

\* while anoms_timestamps[0] < timestamps[0]
TooEarlyLast(a, stamps) == a[Len(a)] < stamps[1]
TooEarly(a, stamps) == a[1] < stamps[1]

\* run_times.append(run_times_i)
RecordLatest(times, t) == <<t>>
Record(times, t) == Append(times, t)

\* The return statement of sample_run is left blank in the notebook (the
\* solution file it loads is not part of the sources); the two returned values
\* are modelled from the specification: an F-beta score over the
\* (ground truth, predicted) pairs and the mean of the per-trial latencies.
\* beta is a parameter of the score; the score of no true positive is 0.
Betas == {<<1, 2>>, Rat(1), Rat(2)}
Count(truth, pred, t, p) ==
    Cardinality({k \in 1..Len(truth) : truth[k] = t /\ pred[k] = p})
Ratio(n, d) == IF d = 0 THEN Rat(0) ELSE RDiv(Rat(n), Rat(d))
Precision(truth, pred) ==
    Ratio(Count(truth, pred, TRUE, TRUE),
          Count(truth, pred, TRUE, TRUE) + Count(truth, pred, FALSE, TRUE))
Recall(truth, pred) ==
    Ratio(Count(truth, pred, TRUE, TRUE),
          Count(truth, pred, TRUE, TRUE) + Count(truth, pred, TRUE, FALSE))
FBeta(truth, pred, beta) ==
    LET p == Precision(truth, pred)
        rc == Recall(truth, pred)
        b2 == RMul(beta, beta)
        den == RAdd(RMul(b2, p), rc)
    IN  IF den = Rat(0) THEN Rat(0)
        ELSE RDiv(RMul(RAdd(Rat(1), b2), RMul(p, rc)), den)
RECURSIVE SumSeq(_)
SumSeq(xs) == IF xs = <<>> THEN 0 ELSE xs[1] + SumSeq(Tail(xs))
Mean(xs) == RDiv(Rat(SumSeq(xs)), Rat(Len(xs)))

\* if counter > 100
CapExceededLate(cnt) == cnt > RetryCap + 2
CapExceeded(cnt) == cnt > RetryCap

\* the telemetry of one machine: one row per reading, ordered by time
MachineRows(m, t) ==
    [k \in 1..Len(t) |->
        [machineID |-> m, datetime |-> t[k], volt |-> Rat(t[k] % 2), rotate |-> Rat(k)]]

Tables ==
    {MachineRows(1, t1) \o MachineRows(2, t2) :
        t1 \in TimeSeqs(1, MaxRows), t2 \in TimeSeqs(0, MaxRows)}

\* reference anomalies: rows (machineID, datetime, errorID) at readings of the table
Candidates(table) ==
    LET keys == Unique([k \in 1..Len(table) |-> <<table[k].machineID, table[k].datetime>>])
    IN  [k \in 1..(Len(keys) * Len(Sensors)) |->
            [machineID |-> keys[((k - 1) \div Len(Sensors)) + 1][1],
             datetime |-> keys[((k - 1) \div Len(Sensors)) + 1][2],
             errorID |-> Sensors[((k - 1) % Len(Sensors)) + 1]]]

References(table) ==
    {Select(Candidates(table), P) :
        P \in {Q \in SUBSET (1..Len(Candidates(table))) : Cardinality(Q) <= MaxAnoms}}

InitSample ==
    /\ pc = "sample_call"
    /\ df \in Tables
    /\ anoms_ref \in References(df)
    /\ window_size \in 1..MaxWindow
    /\ n_epochs \in 1..MaxEpochs
    /\ Len(df) + Len(anoms_ref) + n_epochs <= MaxSize
    /\ com = Rat(DefaultCom)
    /\ ts = <<>> /\ rm_o = <<>> /\ r = 0
    /\ df_smooth = <<>> /\ stop = 0 /\ df_win = <<>> /\ calls = <<>>
    /\ results = [raised |-> FALSE, anoms |-> <<>>]
    /\ is_anomaly = FALSE /\ run_time = 9999
    /\ NoTrial
    /\ NoScore

\* The arrays random_machines, random_sensors and random_timestamps hold
\* independent draws and trial i reads entry i only, so the model draws
\* entry i when trial i starts and carries no other entry.  The locals of a
\* finished trial are dead (each is assigned before it is read again) and are
\* cleared when the loop advances.
NoLocals ==
    /\ ts' = <<>> /\ rm_o' = <<>> /\ r' = 0
    /\ df_smooth' = <<>> /\ stop' = 0 /\ df_win' = <<>> /\ calls' = <<>>
    /\ results' = [raised |-> FALSE, anoms |-> <<>>]
    /\ is_anomaly' = FALSE /\ run_time' = 9999
    /\ random_machines' = <<>> /\ random_sensors' = <<>> /\ random_timestamps' = <<>>
    /\ anoms_s' = <<>> /\ anoms_timestamps' = <<>> /\ counter' = 0

\* from the top of the body to the start of the loop
SampleSetup ==
    /\ pc = "sample_call"
    /\ UNCHANGED scoreVars
    /\ LET distinct == Unique(Column(df, "datetime"))
           stamps == PySlice(distinct, window_size, Len(distinct))
       IN  /\ y_true' = [k \in 1..n_epochs |-> FALSE]
           /\ y_pred' = [k \in 1..n_epochs |-> TRUE]
           /\ run_times' = <<>>
           /\ timestamps' = stamps
           /\ IF stamps = <<>>
              THEN \* np.random.choice of an empty array
                   /\ pc' = "sample_raised"
                   /\ ret' = Raised("ValueError", "np.random.choice(timestamps, n_epochs)")
              ELSE /\ pc' = "sample_trial"
                   /\ UNCHANGED ret
    /\ i' = 0
    /\ UNCHANGED <<avgVars, onlineVars, df, anoms_ref, n_epochs,
                   random_machines, random_sensors, random_timestamps,
                   anoms_s, anoms_timestamps, counter>>

\* one trial, from the top of the loop body to the test of random() < p_anoms
TrialBegin ==
    /\ pc = "sample_trial" /\ i < n_epochs
    /\ UNCHANGED scoreVars
    /\ \E m \in Range(Unique(Column(df, "machineID"))),
          sensor \in Range(Sensors),
          stamp \in Range(timestamps) :
         LET df_s == Select(df, {k \in 1..Len(df) : df[k].machineID = m})
             smooth_values == running_avg(Column(df_s, sensor), com)
             pair == PairAnoms(anoms_ref, m, sensor)
         IN  /\ random_machines' = (i + 1) :> m
             /\ random_sensors' = (i + 1) :> sensor
             /\ random_timestamps' = (i + 1) :> stamp
             /\ ts' = Column(df_s, sensor)
             /\ rm_o' = smooth_values
             /\ r' = Len(df_s)
             /\ df_smooth' = [k \in 1..Len(df_s) |->
                                 [timestamp |-> df_s[k].datetime, value |-> smooth_values[k]]]
             /\ anoms_s' = pair
             /\ \/ /\ pc' = "sample_select"
                   /\ UNCHANGED <<anoms_timestamps, counter>>
                \/ /\ anoms_timestamps' \in Shuffles(Column(pair, "datetime"))
                   /\ counter' = 0
                   /\ pc' = "sample_while"
    /\ UNCHANGED <<com, window_size, stop, df_win, calls, results, is_anomaly, run_time,
                   df, anoms_ref, n_epochs, i, y_true, y_pred, run_times, timestamps, ret>>

\* one evaluation of the while condition and, when it holds, of the loop body
TrialReshuffle ==
    /\ pc = "sample_while"
    /\ UNCHANGED scoreVars
    /\ IF anoms_timestamps = <<>>
       THEN \* anoms_timestamps[0] of an empty array
            /\ pc' = "sample_raised"
            /\ ret' = Raised("IndexError", "anoms_timestamps[0]")
            /\ UNCHANGED <<anoms_timestamps, counter, random_timestamps>>
       ELSE IF TooEarly(anoms_timestamps, timestamps)
            THEN IF CapExceeded(counter)
                 THEN /\ pc' = "sample_returned"
                      /\ ret' = Returned(Rat(0), Rat(9999))
                      /\ UNCHANGED <<anoms_timestamps, counter, random_timestamps>>
                 ELSE /\ anoms_timestamps' \in Shuffles(anoms_timestamps)
                      /\ counter' = counter + 1
                      /\ UNCHANGED <<pc, ret, random_timestamps>>
            ELSE /\ random_timestamps' = [random_timestamps EXCEPT ![i + 1] = anoms_timestamps[1]]
                 /\ pc' = "sample_select"
                 /\ UNCHANGED <<anoms_timestamps, counter, ret>>
    /\ UNCHANGED <<avgVars, onlineVars, df, anoms_ref, n_epochs, i, y_true, y_pred,
                   run_times, timestamps, random_machines, random_sensors, anoms_s>>

\* the rest of the loop body: select the test case, read the ground truth,
\* call the nested detect_ts_online, record the trial
TrialDetect ==
    /\ pc = "sample_select"
    /\ UNCHANGED scoreVars
    /\ LET target == random_timestamps[i + 1]
           test_case == {k \in 1..Len(df_smooth) : df_smooth[k].timestamp = target}
       IN  IF test_case = {}
           THEN \* test_case.index.values[0] of an empty selection
                /\ pc' = "sample_raised"
                /\ ret' = Raised("IndexError", "test_case.index.values[0]")
                /\ UNCHANGED <<stop, df_win, calls, results, is_anomaly, run_time,
                               y_true, y_pred, run_times>>
           ELSE LET test_case_index == (CHOOSE k \in test_case : \A j \in test_case : k <= j) - 1
                    y_true_i == target \in Range(Column(anoms_s, "datetime"))
                    win == NestedWindow(df_smooth, window_size, test_case_index)
                IN  /\ stop' = test_case_index
                    /\ df_win' = win
                    /\ calls' = <<[data |-> win, params |-> NestedDetectParams]>>
                    /\ \E res \in detect_ts(win), t \in Elapsed :
                          /\ results' = res
                          /\ IF res.raised
                             THEN /\ pc' = "sample_raised"
                                  /\ ret' = Raised("DetectorError", "detect_ts")
                                  /\ UNCHANGED <<is_anomaly, run_time, y_true, y_pred, run_times>>
                             ELSE /\ is_anomaly' = NestedDecide(win, res.anoms)
                                  /\ run_time' = t
                                  /\ y_true' = Store(y_true, i, y_true_i)
                                  /\ y_pred' = Store(y_pred, i, NestedDecide(win, res.anoms))
                                  /\ run_times' = Record(run_times, t)
                                  /\ pc' = "sample_next"
                                  /\ UNCHANGED ret
    /\ UNCHANGED <<avgVars, df_smooth, window_size, df, anoms_ref, n_epochs, i, timestamps,
                   random_machines, random_sensors, random_timestamps,
                   anoms_s, anoms_timestamps, counter>>

\* for i in range(0, n_epochs): the loop advances to the next trial
TrialNext ==
    /\ pc = "sample_next"
    /\ UNCHANGED scoreVars
    /\ i' = i + 1
    /\ pc' = "sample_trial"
    /\ NoLocals
    /\ UNCHANGED <<com, window_size, df, anoms_ref, n_epochs, y_true, y_pred,
                   run_times, timestamps, ret>>

\* the return after the last trial
SampleReturn ==
    /\ pc = "sample_trial" /\ i >= n_epochs
    /\ UNCHANGED scoreVars
    /\ pc' = "sample_returned"
    /\ \E beta \in Betas :
          ret' = Returned(FBeta(y_true, y_pred, beta), Mean(run_times))
    /\ UNCHANGED <<avgVars, onlineVars, df, anoms_ref, n_epochs, i, y_true, y_pred,
                   run_times, timestamps, random_machines, random_sensors,
                   random_timestamps, anoms_s, anoms_timestamps, counter>>

Next ==
    SampleSetup \/ TrialBegin \/ TrialReshuffle \/ TrialDetect \/ TrialNext \/ SampleReturn

Spec == InitSample /\ [][Next]_vars

(***************************************************************************)
(* The two copies of detect_ts_online side by side: the top-level function *)
(* is called, then the nested copy with the same df_smooth, window_size    *)
(* and stop.  The detector answers the same window the same way; the call  *)
(* of the nested copy is appended to calls and its returned pair is kept   *)
(* in y_pred and run_times.                                                *)
(***************************************************************************)
NestedDetectTsOnline ==
    /\ pc \in {"online_returned", "online_raised"}
    /\ LET win == NestedWindow(df_smooth, window_size, stop)
       IN  /\ calls' = Append(calls, [data |-> win, params |-> NestedDetectParams])
           /\ \E res \in detect_ts(win), t \in Elapsed :
                 /\ win = df_win => res = results
                 /\ IF res.raised
                    THEN pc' = "nested_raised" /\ UNCHANGED <<y_pred, run_times>>
                    ELSE /\ pc' = "nested_returned"
                         /\ y_pred' = <<NestedDecide(win, res.anoms)>>
                         /\ run_times' = <<t>>
    /\ UNCHANGED <<avgVars, scoreVars, df_smooth, window_size, stop, df_win, results,
                   is_anomaly, run_time, df, anoms_ref, n_epochs, i, y_true, timestamps,
                   random_machines, random_sensors, random_timestamps,
                   anoms_s, anoms_timestamps, counter, ret>>

NextCopies == DetectTsOnline \/ NestedDetectTsOnline

SpecCopies == InitOnline /\ [][NextCopies]_vars

(***************************************************************************)
(* score.py of the deployment notebook: init() and run(rawdata).           *)
(* A request body is text that is not JSON, JSON that is not an object, an *)
(* object without 'data', or an object whose 'data' is a list of feature   *)
(* rows (one feature per row here).  The registered file holds any pickled *)
(* object: a model whose predict answers a numpy array, one whose predict  *)
(* answers a plain Python list, or one whose predict raises.               *)
(***************************************************************************)
Bodies ==
    {[shape |-> sh, data |-> <<>>] : sh \in {"not_json", "not_object", "no_data"}}
    \cup {[shape |-> "data", data |-> d] : d \in SeqsUpTo(0..MaxFeature, 0, MaxBatch)}

ModelFiles ==
    {[kind |-> kd, threshold |-> t] : kd \in {"ndarray", "list"}, t \in 0..MaxFeature}
    \cup {[kind |-> "failing", threshold |-> 0]}

\* json.dumps({"error": result}) / json.dumps({"result": result.tolist()})
ErrorDoc(message) == [kind |-> "returned", key |-> "error", result |-> <<>>, error |-> message]
ResultDoc(result) == [kind |-> "returned", key |-> "result", result |-> result, error |-> ""]
\* an exception that leaves run
Propagated(exception) == [kind |-> "raised", key |-> "", result |-> <<>>, error |-> exception]

\* model.predict(data): one label per row; no rows is an error of predict
predict(mdl, data) == [k \in 1..Len(data) |-> IF data[k] >= mdl.threshold THEN 1 ELSE 0]

\* the statements inside try: the exception they end with, "" for none
TryFails(body, mdl) ==
    IF body.shape = "not_json" THEN "JSONDecodeError"
    ELSE IF body.shape = "not_object" THEN "TypeError"
    ELSE IF body.shape = "no_data" THEN "KeyError"
    ELSE IF mdl.kind = "unset" THEN "NameError"
    ELSE IF mdl.kind = "failing" \/ body.data = <<>> THEN "ValueError"
    ELSE ""

\* run(rawdata) with the global model mdl
run_model_outside_try(body, mdl) ==
    IF body.shape = "data" /\ mdl.kind = "unset"
    THEN Propagated("NameError")
    ELSE IF TryFails(body, mdl) # ""
         THEN ErrorDoc(TryFails(body, mdl))
         ELSE IF mdl.kind = "list"
              THEN Propagated("AttributeError")
              ELSE ResultDoc(predict(mdl, body.data))
run(body, mdl) ==
    IF TryFails(body, mdl) # ""
    THEN ErrorDoc(TryFails(body, mdl))
    ELSE IF mdl.kind = "list"
         THEN \* result.tolist() after the try block: a list has no tolist
              Propagated("AttributeError")
         ELSE ResultDoc(predict(mdl, body.data))

InitScore ==
    /\ pc = "score_deployed"
    /\ registered \in ModelFiles
    /\ model = Unset /\ rawdata = NoBody /\ response = NoResponse
    /\ NoAvg /\ NoOnline /\ NoSample

\* init(): model = joblib.load(model_path)
ScoreInit ==
    /\ pc = "score_deployed"
    /\ model' = registered
    /\ pc' = "score_ready"
    /\ UNCHANGED <<avgVars, onlineVars, sampleVars, registered, rawdata, response>>

\* run(rawdata) for one request; the service may be called before init()
ScoreRun ==
    /\ pc \in {"score_deployed", "score_ready"}
    /\ \E body \in Bodies :
          /\ rawdata' = body
          /\ response' = run(body, model)
    /\ UNCHANGED <<pc, avgVars, onlineVars, sampleVars, registered, model>>

NextScore == ScoreInit \/ ScoreRun

SpecScore == InitScore /\ [][NextScore]_vars

(***************************************************************************)
(* Properties of running_avg (checked under SpecAvg).                      *)
(***************************************************************************)
RAbs(x) == IF x[1] < 0 THEN <<-x[1], x[2]>> ELSE x
Tolerance == <<1, 1000>>
WithinTolerance(x, y) == RLe(RAbs(RSub(x, y)), RMul(Tolerance, RMax(RAbs(x), RAbs(y))))

RECURSIVE PrefixMax(_, _)
PrefixMax(xs, t) == IF t = 1 THEN xs[1] ELSE RMax(PrefixMax(xs, t - 1), xs[t])
RECURSIVE PrefixMin(_, _)
PrefixMin(xs, t) == IF t = 1 THEN xs[1] ELSE RMin(PrefixMin(xs, t - 1), xs[t])

\* positions of rm_o the loop has written so far
Written == IF pc \in {"avg_loop", "avg_done"} THEN 1..r ELSE {}

\* C1 as stated: on a series of length >= 2, every estimate of running_avg
\* equals (here: within a relative tolerance of 1/1000, far looser than the
\* 1e-9 of the specification) the batch ewm(com).mean() value of the same
\* prefix.
C1_EqualsBatchEverywhere ==
    Len(ts) >= 2 =>
        \A t \in Written : WithinTolerance(rm_o[t], ewm_mean(ts, com)[t])

\* C1 amended: the estimate of running_avg equals the batch value at the
\* first position, and at every later position the two differ by at most the
\* range (max - min) of the values of the prefix; they agree wherever the
\* prefix is constant.
C1_BatchGapWithinPrefixRange ==
    \A t \in Written :
        RLe(RAbs(RSub(rm_o[t], ewm_mean(ts, com)[t])),
            RSub(PrefixMax(ts, t), PrefixMin(ts, t)))

C1_Witness ==
    /\ pc = "avg_done" /\ Len(ts) >= 3
    /\ rm_o[1] = ewm_mean(ts, com)[1]
    /\ \A t \in 2..Len(ts) : rm_o[t] # ewm_mean(ts, com)[t]

\* C2 as stated: the second estimate of a series [a, b, ...] is b (weight 1).
C2_SecondEstimateIsSecondValue ==
    (2 \in Written) => rm_o[2] = ts[2]

\* C2 amended: at the second observation (r = 1) the weight is
\* min(center_of_mass, 1) + 1, so the second estimate is the plain average
\* (a + b)/2 for every center_of_mass >= 1, and a + (b - a)/(center_of_mass + 1)
\* for a center_of_mass below 1.
C2_SecondEstimateIsAverage ==
    (2 \in Written) =>
        IF RLe(Rat(1), com)
        THEN rm_o[2] = RDiv(RAdd(ts[1], ts[2]), Rat(2))
        ELSE rm_o[2] = RAdd(ts[1], RDiv(RSub(ts[2], ts[1]), RAdd(com, Rat(1))))

C2_Witness ==
    /\ pc = "avg_done" /\ Len(ts) = 2 /\ RLe(Rat(2), com)
    /\ ts[1] = Rat(0) /\ ts[2] = Rat(2) /\ rm_o[2] = Rat(1)

(***************************************************************************)
(* Properties of detect_ts_online (checked under SpecOnline).              *)
(***************************************************************************)
Called == pc \in {"online_returned", "online_raised"}

\* C3: for 0 <= stop <= length and size >= 1 the window handed to the
\* detector is the contiguous slice [max(0, stop - size), stop) of the
\* smoothed series, of length min(size, stop).
C3_WindowIsBoundedSlice ==
    Called =>
        /\ Len(df_win) = Min(window_size, stop)
        /\ Len(df_win) >= 0 /\ Len(df_win) <= window_size
        /\ \A k \in 1..Len(df_win) :
              df_win[k] = df_smooth[(IF stop > window_size THEN stop - window_size ELSE 0) + k]
        /\ calls = <<[data |-> df_win, params |-> DetectParams]>>

\* the warm-up case: the window is shorter than window_size and starts at 0
C3_Witness ==
    /\ Called /\ stop = 2 /\ window_size = 3
    /\ Len(df_smooth) = 3 /\ Len(df_win) = 2 /\ df_win[1] = df_smooth[1]

DetectorCalled ==
    \/ pc = "sample_next"
    \/ pc = "sample_raised" /\ ret.at = "detect_ts"

\* C5: in every trial the window handed to the detector ends at the trial's
\* target timestamp: its last entry is the observation at that timestamp.
C5_WindowEndsAtTarget ==
    DetectorCalled =>
        /\ df_win # <<>>
        /\ TailRow(df_win).timestamp = random_timestamps[i + 1]

\* C6: an error raised by the detector does not leave detect_ts_online and
\* does not end sample_run.
C6_DetectorErrorContained ==
    results.raised => pc # "sample_raised"

\* C7: a trial whose detector call failed has the outcome "undecidable",
\* neither true nor false, and sample_run goes on without it.
C7_FailedTrialUndecidable ==
    results.raised =>
        /\ ret.kind # "raised"
        /\ y_pred[i + 1] \notin BOOLEAN

\* C8: the reshuffle loop ends within the retry cap: every pass through the
\* loop body adds one to counter, and counter never exceeds the cap plus one.
C8_ReshuffleLoopBounded ==
    /\ [](counter <= RetryCap + 1)
    /\ [][(pc = "sample_while" /\ pc' = "sample_while") => counter' = counter + 1]_vars

\* the cap is exhausted: every labelled anomaly lies before the warm-up
C8_Witness ==
    /\ pc = "sample_returned" /\ counter = RetryCap + 1
    /\ anoms_timestamps # <<>>
    /\ \A k \in 1..Len(anoms_timestamps) : anoms_timestamps[k] < timestamps[1]

\* C9: when the anomaly branch finds no anomaly timestamp at or after the
\* warm-up timestamp, sample_run ends with the degenerate result (0.0, 9999.0)
\* and not with an error.
NoEligibleAnomaly ==
    \A k \in 1..Len(anoms_timestamps) : anoms_timestamps[k] < timestamps[1]
LeftReshuffleLoop ==
    \/ pc = "sample_raised" /\ ret.at = "anoms_timestamps[0]"
    \/ pc = "sample_returned" /\ counter > 0
C9_NoEligibleAnomalyIsDegenerate ==
    (LeftReshuffleLoop /\ NoEligibleAnomaly) => ret = Returned(Rat(0), Rat(9999))

\* C10: for window_size >= 1, n_epochs >= 1 and center_of_mass > 0 sample_run
\* never raises.
C10_NeverRaises ==
    (window_size >= 1 /\ n_epochs >= 1 /\ RLt(Rat(0), com)) => ret.kind # "raised"

\* the reference rows of the current trial's own machine and sensor at its
\* target timestamp
OwnPairFlagsTarget ==
    \E k \in 1..Len(anoms_ref) :
        /\ anoms_ref[k].machineID = random_machines[i + 1]
        /\ anoms_ref[k].errorID = random_sensors[i + 1]
        /\ anoms_ref[k].datetime = random_timestamps[i + 1]
OtherPairFlagsTarget ==
    \E k \in 1..Len(anoms_ref) :
        /\ anoms_ref[k].datetime = random_timestamps[i + 1]
        /\ \/ anoms_ref[k].machineID # random_machines[i + 1]
           \/ anoms_ref[k].errorID # random_sensors[i + 1]

\* C11: the ground truth recorded for a trial is true exactly when the
\* reference labelling holds the trial's target timestamp for the trial's own
\* machine and own sensor.
C11_GroundTruthIsOwnPair ==
    (pc = "sample_next") => (y_true[i + 1] <=> OwnPairFlagsTarget)

\* another machine or sensor is flagged at the target, the own pair is not
C11_Witness ==
    /\ pc = "sample_next" /\ OtherPairFlagsTarget
    /\ ~OwnPairFlagsTarget /\ y_true[i + 1] = FALSE

\* the function returned after the loop ran through all n_epochs trials
CompletedAllTrials == pc = "sample_returned" /\ i = n_epochs

\* C12: on completing all n_epochs trials y_true, y_pred and run_times each
\* hold exactly n_epochs entries; a trial writes entry i of each with its own
\* truth, decision and latency and leaves the other entries alone; the loop
\* advances only past a written entry, so no initial placeholder is left.
C12_EveryTrialRecorded ==
    /\ [](CompletedAllTrials =>
             /\ Len(y_true) = n_epochs /\ Len(y_pred) = n_epochs
             /\ Len(run_times) = n_epochs)
    /\ [](pc \in {"sample_trial", "sample_select", "sample_while"} => Len(run_times) = i)
    /\ [][(pc' = "sample_next" /\ pc # "sample_next") =>
             /\ Len(run_times') = i + 1 /\ i' = i
             /\ y_true'[i + 1] = (random_timestamps[i + 1] \in Range(Column(anoms_s, "datetime")))
             /\ y_pred'[i + 1] = is_anomaly'
             /\ run_times'[i + 1] = run_time'
             /\ \A k \in 1..n_epochs : k # i + 1 =>
                    y_true'[k] = y_true[k] /\ y_pred'[k] = y_pred[k]
             /\ \A k \in 1..i : run_times'[k] = run_times[k]]_vars
    /\ [][(pc' # "sample_next" /\ pc # "sample_call") =>
             y_true' = y_true /\ y_pred' = y_pred /\ run_times' = run_times]_vars

\* both placeholders overwritten with the opposite value in a completed run
C12_Witness ==
    /\ CompletedAllTrials /\ n_epochs = MaxEpochs
    /\ y_true[1] = TRUE /\ y_pred[n_epochs] = FALSE

\* the trial took the anomaly branch and left its reshuffle loop with a target
AnomalyTargetAssigned ==
    pc \in {"sample_select", "sample_next"} /\ anoms_timestamps # <<>>

\* C17: the target timestamp the anomaly branch assigns to a trial is flagged
\* in the reference labelling for the trial's own machine and sensor (so the
\* ground truth stored for it is true) and is not earlier than the first
\* timestamp after the warm-up.
C17_AnomalyTargetIsOwnAndWarm ==
    AnomalyTargetAssigned =>
        /\ random_timestamps[i + 1] = anoms_timestamps[1]
        /\ OwnPairFlagsTarget
        /\ random_timestamps[i + 1] >= timestamps[1]
        /\ (pc = "sample_next" => y_true[i + 1] = TRUE)

\* a target stored after at least one reshuffle moved a too-early anomaly away
C17_Witness ==
    /\ AnomalyTargetAssigned /\ pc = "sample_next" /\ counter >= 1
    /\ \E k \in 1..Len(anoms_timestamps) : anoms_timestamps[k] < timestamps[1]

\* the counts of the confusion matrix of the recorded trials
TruePositives == Cardinality({k \in 1..n_epochs : y_true[k] /\ y_pred[k]})
FalsePositives == Cardinality({k \in 1..n_epochs : ~y_true[k] /\ y_pred[k]})
FalseNegatives == Cardinality({k \in 1..n_epochs : y_true[k] /\ ~y_pred[k]})
\* score * ((1 + b^2) TP + b^2 FN + FP) = (1 + b^2) TP, and 0 without a true positive
IsFBetaOfCounts(score, beta) ==
    LET b2 == RMul(beta, beta)
        gain == RMul(RAdd(Rat(1), b2), Rat(TruePositives))
        den == RAdd(gain, RAdd(RMul(b2, Rat(FalseNegatives)), Rat(FalsePositives)))
    IN  IF TruePositives = 0 THEN score = Rat(0) ELSE RMul(score, den) = gain

IsConstant(xs) == \A k \in 1..Len(xs) : xs[k] = xs[1]

\* C15: on a constant series (all values c) and for every center_of_mass > 0
\* every estimate of running_avg equals c exactly.
C15_ConstantSeriesStays ==
    IsConstant(ts) => \A t \in Written : rm_o[t] = ts[1]

\* a full-length constant non-zero series smoothed with a fractional com
C15_Witness ==
    /\ pc = "avg_done" /\ Len(ts) = MaxLen /\ IsConstant(ts)
    /\ ts[1] = Rat(MaxVal) /\ com = <<1, 2>> /\ rm_o[MaxLen] = Rat(MaxVal)

\* the weight the claim gives the observation at 1-based position t, which is
\* preceded by t - 1 observations
EffectiveWeight(t) == RAdd(RMin(com, Rat(t - 1)), Rat(1))

\* C19: every estimate after the first is previous + (new_value - previous)/w
\* with a weight w that never exceeds center_of_mass + 1 and is exactly
\* center_of_mass + 1 for an observation preceded by at least
\* center_of_mass + 1 earlier observations.
C19_UpdateLawAndWeight ==
    \A t \in Written : t >= 2 =>
        \E w \in {EffectiveWeight(t)} :
            /\ RMul(RSub(rm_o[t], rm_o[t - 1]), w) = RSub(ts[t], rm_o[t - 1])
            /\ RLe(w, RAdd(com, Rat(1)))
            /\ RLe(RAdd(com, Rat(1)), Rat(t - 1)) => w = RAdd(com, Rat(1))

\* an estimate past the cap moved by a non-zero difference, after an estimate
\* below the cap
C19_Witness ==
    /\ pc = "avg_done" /\ Len(ts) = MaxLen /\ RLe(RAdd(com, Rat(1)), Rat(MaxLen - 1))
    /\ RLt(Rat(1), com) /\ rm_o[MaxLen] # rm_o[MaxLen - 1] /\ rm_o[2] # rm_o[1]

\* C20: for a series of length n >= 1 running_avg returns exactly n estimates,
\* the first of them the first observed value, and the input series is never
\* modified.
C20_SameLengthSeedUnsmoothed ==
    /\ [](pc = "avg_done" => Len(rm_o) = Len(ts) /\ Len(ts) >= 1 /\ rm_o[1] = ts[1])
    /\ [][(pc \in {"avg_call", "avg_loop"}) => (ts' = ts)]_vars

\* a full-length series whose later estimates moved away from the seed
C20_Witness ==
    /\ pc = "avg_done" /\ Len(ts) = MaxLen /\ rm_o[1] = ts[1]
    /\ ts[1] # ts[MaxLen] /\ rm_o[1] # rm_o[MaxLen]

(***************************************************************************)
(* Properties of the window across calls (checked under SpecStream).       *)
(***************************************************************************)
\* a step from one returned call to a call at the next stop / the same stop
Advanced == pc = "stream_returned" /\ stop' = stop + 1
Repeated == pc = "stream_returned" /\ stop' = stop /\ Len(calls') = Len(calls) + 1

\* C16: as stop advances by one the earliest timestamp of the window never
\* decreases, and once the window holds window_size entries an advance drops
\* exactly the oldest entry, keeps the others in order and adds the one newest
\* entry, so the length stays window_size.
C16_WindowSlidesOldestFirst ==
    [][Advanced =>
         /\ df_win # <<>> => df_win'[1].timestamp >= df_win[1].timestamp
         /\ Len(df_win) = window_size =>
                /\ Len(df_win') = window_size
                /\ \A k \in 1..(window_size - 1) : df_win'[k] = df_win[k + 1]
                /\ df_win'[window_size] = df_smooth[stop + 1]]_vars

\* a full window that has slid past the start of the series to a later
\* earliest timestamp
C16_Witness ==
    /\ pc = "stream_returned" /\ window_size >= 2 /\ stop > window_size
    /\ Len(df_win) = window_size
    /\ df_win[1].timestamp > df_smooth[1].timestamp

C14_RunAlwaysAnswers ==
    response # NoResponse =>
        /\ response.kind = "returned"
        /\ response.key \in {"result", "error"}

(***************************************************************************)
(* Further properties of detect_ts_online (checked under SpecOnline).      *)
(***************************************************************************)
\* the first row of the slice [max(0, stop - window_size), stop), 0-based
SliceStart == IF stop < window_size THEN 0 ELSE stop - window_size

\* C21: a call of detect_ts_online invokes the detector exactly once, on the
\* rows of the window slice and on no other row of the series; during warm-up
\* (stop < window_size) the detector is still invoked, on the rows [0, stop).
C21_DetectorInvokedOnceOnWindow ==
    Called =>
        /\ Len(calls) = 1
        /\ Len(calls[1].data) = stop - SliceStart
        /\ \A k \in 1..(stop - SliceStart) : calls[1].data[k] = df_smooth[SliceStart + k]
        /\ stop < window_size => calls[1].data = SubSeq(df_smooth, 1, stop)

\* a warm-up call at stop = 0: the detector was invoked on the empty slice
C21_Witness ==
    /\ Called /\ stop = 0 /\ window_size >= 2 /\ Len(df_smooth) >= 2
    /\ Len(calls) = 1 /\ calls[1].data = <<>>

(***************************************************************************)
(* Further properties of sample_run (checked under Spec).                  *)
(***************************************************************************)
\* C22: in every trial the position of the target timestamp in the chosen
\* machine's series is at least window_size, so the window handed to the
\* detector has exactly window_size entries.
C22_TargetPastWarmUp ==
    DetectorCalled =>
        /\ stop >= window_size
        /\ Len(df_win) = window_size

\* the positions of the current trial's target timestamp in the chosen
\* machine's series
TargetOccurrences ==
    IF DOMAIN random_timestamps = {} THEN {}
    ELSE {k \in 1..Len(df_smooth) : df_smooth[k].timestamp = random_timestamps[i + 1]}
FirstOccurrence == CHOOSE k \in TargetOccurrences : \A j \in TargetOccurrences : k <= j

\* C23: when the chosen machine's series holds the target timestamp more than
\* once sample_run does not fail; the trial is evaluated at the position of
\* the first occurrence and stores one ground truth, one prediction and one
\* latency.
C23_DuplicateTargetHandled ==
    Cardinality(TargetOccurrences) >= 2 =>
        /\ ret.kind # "raised"
        /\ pc = "sample_next" =>
               /\ stop = FirstOccurrence - 1
               /\ Len(run_times) = i + 1
               /\ y_true[i + 1] \in BOOLEAN /\ y_pred[i + 1] \in BOOLEAN

\* C24: a call of run before init has loaded the model returns the
\* {"error": ...} document and does not raise, and no call of run changes the
\* model: once init has run the model stays the object init loaded.
C24_RunBeforeInitAndModelKept ==
    /\ []((pc = "score_deployed" /\ response # NoResponse) =>
             (response.kind = "returned" /\ response.key = "error" /\ model = Unset))
    /\ [](pc = "score_ready" => model = registered)
    /\ [][(rawdata' # rawdata \/ response' # response) => model' = model]_vars

\* a well-formed request answered before init with the error of the missing
\* model
C24_Witness ==
    /\ pc = "score_deployed" /\ rawdata.shape = "data" /\ Len(rawdata.data) = MaxBatch
    /\ response = ErrorDoc("NameError")

(***************************************************************************)
(* The two copies of detect_ts_online (checked under SpecCopies).          *)
(***************************************************************************)
BothCalled == pc \in {"nested_returned", "nested_raised"}

\* C25: for the same smoothed series, window size, stop index and detector
\* behaviour the top-level detect_ts_online and the copy nested in sample_run
\* select the same window, pass the same detector parameters and return the
\* same is_anomaly.
C25_CopiesAgree ==
    BothCalled =>
        /\ Len(calls) = 2
        /\ calls[2].data = calls[1].data
        /\ calls[2].params = calls[1].params
        /\ (pc = "nested_raised") <=> results.raised
        /\ pc = "nested_returned" => y_pred = <<is_anomaly>>

\* both copies decided "anomaly" on a full window that is a proper part of
\* the series, with more than one row reported
C25_Witness ==
    /\ pc = "nested_returned" /\ y_pred = <<TRUE>> /\ is_anomaly
    /\ window_size >= 2 /\ stop > window_size /\ Len(calls[2].data) = window_size
    /\ Len(results.anoms) >= 2

(***************************************************************************)
(* Bounds of the estimates of running_avg (checked under SpecAvg).         *)
(***************************************************************************)
Between(x, a, b) == RLe(RMin(a, b), x) /\ RLe(x, RMax(a, b))

\* C26: for every center_of_mass > 0 each estimate of running_avg lies
\* between the previous estimate and the new value (inclusive), and every
\* estimate lies between the minimum and the maximum of the values observed
\* so far.
C26_EstimateBetweenPreviousAndNew ==
    RLt(Rat(0), com) =>
        /\ \A t \in Written : t >= 2 => Between(rm_o[t], rm_o[t - 1], ts[t])
        /\ \A t \in Written : Between(rm_o[t], PrefixMin(ts, t), PrefixMax(ts, t))

\* a series that goes up and then down; every later estimate is strictly
\* between the previous estimate and the new value
C26_Witness ==
    /\ pc = "avg_done" /\ Len(ts) = MaxLen
    /\ RLt(ts[1], ts[2]) /\ RLt(ts[3], ts[2])
    /\ \A t \in 2..MaxLen : rm_o[t] # rm_o[t - 1] /\ rm_o[t] # ts[t]

====
